---- MODULE Spec2Model ----
(***************************************************************************)
(* Model of the coin-selection library: the validators of validation.ts   *)
(* and the sweep selector maxFunds.  Every exported function is one       *)
(* action: the caller picks the arguments, the function runs to its       *)
(* return value or its thrown error, and the outcome is recorded.         *)
(*                                                                         *)
(* Numbers are JavaScript numbers (IEEE-754 binary64).  Amounts are       *)
(* integers up to 10^14 and are kept as two base-10^7 digits; fee rates   *)
(* are doubles kept as integer part plus a 52-bit fraction in four        *)
(* 13-bit limbs, so that feeRate * vsize and fee / vsize round exactly as *)
(* the runtime rounds them (round to nearest, ties to even).              *)
(***************************************************************************)
EXTENDS Integers, Sequences, FiniteSets, TLC

VARIABLES pc, utxos, targets, remainder, feeRate, dustRelayFeeRate, ret

vars == <<pc, utxos, targets, remainder, feeRate, dustRelayFeeRate, ret>>

(***************************************************************************)
(* Bounds of the model.                                                    *)
(***************************************************************************)
MaxUtxos == 3
MaxTargets == 1

(***************************************************************************)
(* Amounts: value = hi * VBase + lo, 0 <= lo < VBase, exact integers.      *)
(* Sums of at most 90 amounts of at most 10^14 stay below 2^53, so the     *)
(* runtime's additions and subtractions of amounts are exact.              *)
(* Kinds other than "int" are the numbers Number.isInteger rejects:        *)
(* "frac" is hi * VBase + lo + 1/2.                                        *)
(***************************************************************************)
VBase == 10^7

Amount(hi, lo) == [k |-> "int", hi |-> hi, lo |-> lo]

VInt(n) == Amount(n \div VBase, n % VBase)

VNorm(hi, lo) == Amount(hi + (lo \div VBase), lo % VBase)

VAdd(a, b) == VNorm(a.hi + b.hi, a.lo + b.lo)

VSub(a, b) == VNorm(a.hi - b.hi, a.lo - b.lo)

VLess(a, b) == a.hi < b.hi \/ (a.hi = b.hi /\ a.lo < b.lo)

VZero == VInt(0)

(***************************************************************************)
(* Doubles: a finite rate is I + F / 2^52 with F = F[1] + F[2]*2^13 +      *)
(* F[3]*2^26 + F[4]*2^39; every double >= 1 has this form.                 *)
(***************************************************************************)
LimbBase == 2^13

NoFrac == <<0, 0, 0, 0>>

Fin(I, F) == [k |-> "fin", I |-> I, F |-> F]

NaN == [k |-> "NaN", I |-> 0, F |-> NoFrac]

PosInfinity == [k |-> "Infinity", I |-> 0, F |-> NoFrac]

NegInfinity == [k |-> "-Infinity", I |-> 0, F |-> NoFrac]

Undefined == [k |-> "undefined", I |-> 0, F |-> NoFrac]

\* fee / vsize before rounding: the quotient of an amount by a positive size
Quot(num, den) == [k |-> "quot", num |-> num, den |-> den]

RECURSIVE Log2(_)
Log2(n) == IF n <= 1 THEN 0 ELSE 1 + Log2(n \div 2)

IsPow2(n) == n >= 1 /\ 2^Log2(n) = n

\* F * v = carry * 2^52 + frac (frac again in four limbs)
MulFrac(F, v) ==
  LET t1 == F[1] * v
      t2 == F[2] * v + (t1 \div LimbBase)
      t3 == F[3] * v + (t2 \div LimbBase)
      t4 == F[4] * v + (t3 \div LimbBase)
  IN [carry |-> t4 \div LimbBase,
      frac |-> <<t1 % LimbBase, t2 % LimbBase, t3 % LimbBase, t4 % LimbBase>>]

\* comparisons of a four-limb fraction with a small integer b, 0 <= b < 2^26
FracGreater(G, b) == G[4] > 0 \/ G[3] > 0 \/ G[2] * LimbBase + G[1] > b

FracEqual(G, b) == G[4] = 0 /\ G[3] = 0 /\ G[2] * LimbBase + G[1] = b

FracLess(F, G) ==
  \E i \in 1..4 : F[i] < G[i] /\ \A j \in (i + 1)..4 : F[j] = G[j]

\* binary exponent of a finite rate >= 1/2
Exponent(r) == IF r.I >= 1 THEN Log2(r.I) ELSE 0 - 1

IsPowerOfTwo(r) ==
  \/ r.F = NoFrac /\ IsPow2(r.I)
  \/ r.I = 0 /\ r.F = <<0, 0, 0, LimbBase \div 2>>

\* last bit of the 53-bit significand of a finite rate
OddSignificand(r) ==
  LET e == Exponent(r)
  IN e >= 0 /\ (r.F[(e \div 13) + 1] \div (2^(e % 13))) % 2 = 1

(***************************************************************************)
(* Math.ceil(r * v) for a finite double r >= 0 and an integer v >= 1.      *)
(* The exact product is n + frac / 2^52; the rounded product is the        *)
(* integer n exactly when frac is at most half a unit in the last place    *)
(* of n, and lies strictly between n and n + 1 (or is n + 1) otherwise.    *)
(***************************************************************************)
CeilMul(r, v) ==
  LET p == MulFrac(r.F, v)
      n == r.I * v + p.carry
  IN IF p.frac = NoFrac THEN n
     ELSE IF n = 0 THEN 1
     ELSE IF FracGreater(p.frac, (2^Log2(n)) \div 2) THEN n + 1
     ELSE n

(***************************************************************************)
(* (num / den) < r in doubles, for an amount num, a size den >= 1 and a    *)
(* finite double r that is 0 or >= 1/2: the rounded quotient is below r    *)
(* exactly when the exact quotient is below the midpoint of r and the      *)
(* double before r (or equals it and the tie goes down).                   *)
(***************************************************************************)
DivLess(num, den, r) ==
  IF r.I = 0 /\ r.F = NoFrac THEN VLess(num, VZero)
  ELSE
    LET p == MulFrac(r.F, den)
        d == VSub(num, VInt(den * r.I + p.carry))
        e == Exponent(r)
        gap == den * (IF IsPowerOfTwo(r) THEN 2^(e + 1) ELSE 2^(e + 2))
    IN IF VLess(VZero, d) THEN FALSE
       ELSE IF VLess(d, VZero) THEN TRUE
       ELSE \/ FracGreater(p.frac, gap \div 8)
            \/ gap % 8 = 0 /\ FracEqual(p.frac, gap \div 8) /\ OddSignificand(r)

\* the runtime's x < y
JsLess(x, y) ==
  CASE x.k \in {"NaN", "undefined"} \/ y.k \in {"NaN", "undefined"} -> FALSE
    [] y.k = "-Infinity" -> FALSE
    [] x.k = "Infinity" -> FALSE
    [] x.k = "-Infinity" -> TRUE
    [] y.k = "Infinity" -> TRUE
    [] x.k = "fin" /\ y.k = "fin" ->
         x.I < y.I \/ (x.I = y.I /\ FracLess(x.F, y.F))
    [] x.k = "quot" /\ y.k = "fin" -> DivLess(x.num, x.den, y)
    [] x.k = "fin" /\ x.F = NoFrac /\ y.k = "quot" ->
         \* an integer m is below the rounded quotient iff m * den < num
         VLess(VInt(x.I * y.den), y.num)

IsFinite(x) == x.k \in {"fin", "quot"}

(***************************************************************************)
(* index.ts: the configured rate bounds.                                   *)
(***************************************************************************)
MAX_FEE_RATE == Fin(10000, NoFrac)

DUST_RELAY_FEE_RATE == Fin(3, NoFrac)

(***************************************************************************)
(* Size Estimator (vsize.ts): base overhead plus the weight of every       *)
(* input and output shape, in weight units, divided by 4 and rounded up.   *)
(***************************************************************************)
Shapes == {"pkh", "wpkh"}

BaseWeight == 40

inputWeight(output) == IF output = "pkh" THEN 592 ELSE 271

outputWeight(output) == IF output = "pkh" THEN 136 ELSE 124

RECURSIVE SumInputWeights(_, _)
SumInputWeights(s, i) ==
  IF i > Len(s) THEN 0 ELSE inputWeight(s[i]) + SumInputWeights(s, i + 1)

RECURSIVE SumOutputWeights(_, _)
SumOutputWeights(s, i) ==
  IF i > Len(s) THEN 0 ELSE outputWeight(s[i]) + SumOutputWeights(s, i + 1)

vsize(inputs, outputs) ==
  LET totalWeight == BaseWeight + SumInputWeights(inputs, 1)
                                + SumOutputWeights(outputs, 1)
  IN (totalWeight + 3) \div 4

(***************************************************************************)
(* Dust Classifier (dust.ts): the value is below the cost, at the relay    *)
(* fee rate, of spending the output as the sole input of a transaction.    *)
(* An integer is below a double exactly when it is below its ceiling.      *)
(***************************************************************************)
isDust(output, value, relayFeeRate) ==
  VLess(value, VInt(CeilMul(relayFeeRate, vsize(<<output>>, <<>>))))

(***************************************************************************)
(* validation.ts                                                           *)
(***************************************************************************)
NoError == "none"

EmptyGroup == "Empty group"

ValueNotSupported == "Input value not supported"

FeeRateNotSupported == "Fee rate not supported"

NegativeContribution == "feeContribution < 0"

FeeRateTooLow == "Final fee rate lower than required"

IsInteger(value) == value.k = "int"

LeqZero(value) ==
  CASE value.k \in {"int", "frac"} ->
         value.hi < 0 \/ (value.hi = 0 /\ value.lo = 0 /\ value.k = "int")
    [] value.k = "-Infinity" -> TRUE
    [] OTHER -> FALSE

\* the cap taken as exclusive: value >= 1e14
OverCap_Inclusive(value) ==
  CASE value.k \in {"int", "frac"} -> value.hi >= VBase
    [] value.k = "Infinity" -> TRUE
    [] OTHER -> FALSE

\* value > 1e14
OverCap(value) ==
  CASE value.k \in {"int", "frac"} ->
         \/ value.hi > VBase
         \/ value.hi = VBase /\ (value.lo > 0 \/ value.k = "frac")
    [] value.k = "Infinity" -> TRUE
    [] OTHER -> FALSE

valueRejected(value) == ~IsInteger(value) \/ LeqZero(value) \/ OverCap(value)

validateOutputWithValues(outputAndValues) ==
  IF Len(outputAndValues) = 0 THEN EmptyGroup
  ELSE IF \E i \in 1..Len(outputAndValues) :
            valueRejected(outputAndValues[i].value)
       THEN ValueNotSupported
       ELSE NoError

\* the minimum taken as exclusive: rate <= 1
belowMinimum_Inclusive(rate) ==
  JsLess(rate, Fin(1, NoFrac)) \/ rate = Fin(1, NoFrac)

belowMinimum(rate) == JsLess(rate, Fin(1, NoFrac))

validateFeeRate(rate) ==
  IF ~IsFinite(rate) \/ belowMinimum(rate) \/ JsLess(MAX_FEE_RATE, rate)
  THEN FeeRateNotSupported
  ELSE NoError

RECURSIVE SumValues(_, _)
SumValues(s, i) ==
  IF i > Len(s) THEN VZero ELSE VAdd(s[i].value, SumValues(s, i + 1))

Outputs(s) == [i \in 1..Len(s) |-> s[i].output]

\* the targets left out of the fee
feeOf_IgnoresTargets(us, ts) == SumValues(us, 1)

feeOf(us, ts) == VSub(SumValues(us, 1), SumValues(ts, 1))

\* the realized rate never compared with the requested one
rateTooLow_Never(finalFeeRate, rate) == FALSE

rateTooLow(finalFeeRate, rate) == JsLess(finalFeeRate, rate)

validatedFeeAndVsize(us, ts, rate) ==
  LET fee == feeOf(us, ts)
      vsizeResult == vsize(Outputs(us), Outputs(ts))
      finalFeeRate == Quot(fee, vsizeResult)
  IN [err |-> IF rateTooLow(finalFeeRate, rate) THEN FeeRateTooLow
              ELSE validateFeeRate(finalFeeRate),
      fee |-> fee,
      vsize |-> vsizeResult]

(***************************************************************************)
(* maxFunds.  A utxo is a caller's object: id is its identity (what        *)
(* !== compares), value and output are its fields.                         *)
(***************************************************************************)
NoRet ==
  [kind |-> "none", msg |-> NoError, utxos |-> <<>>, sameRef |-> FALSE,
   targets |-> <<>>, fee |-> VZero, vsize |-> 0]

Thrown(msg) == [NoRet EXCEPT !.kind = "error", !.msg = msg]

ReturnedUndefined == [NoRet EXCEPT !.kind = "undefined"]

\* the caller's dustRelayFeeRate dropped
defaultedDustRate_Fixed(arg) == DUST_RELAY_FEE_RATE

\* dustRelayFeeRate = DUST_RELAY_FEE_RATE when the caller leaves it out
defaultedDustRate(arg) == IF arg = Undefined THEN DUST_RELAY_FEE_RATE ELSE arg

allUtxosFee(us, rem, rate) == CeilMul(rate, vsize(Outputs(us), <<rem>>))

withoutUtxo(us, validUtxo) == SelectSeq(us, LAMBDA utxo : utxo.id # validUtxo.id)

feeContribution(us, rem, rate, validUtxo) ==
  LET txSizeWithoutUtxo == vsize(Outputs(withoutUtxo(us, validUtxo)), <<rem>>)
  IN allUtxosFee(us, rem, rate) - CeilMul(rate, txSizeWithoutUtxo)

\* value >= feeContribution
keepUtxo_AtLeast(value, contribution) == ~VLess(value, VInt(contribution))

keepUtxo(value, contribution) == VLess(VInt(contribution), value)

validUtxosOf(us, rem, rate) ==
  SelectSeq(us, LAMBDA validUtxo :
                  keepUtxo(validUtxo.value,
                           feeContribution(us, rem, rate, validUtxo)))

\* the caller's array returned even when utxos were filtered out
returnedUtxos_AlwaysCaller(us, validUtxos) == [sameRef |-> TRUE, seq |-> us]

\* the filtered copy returned even when nothing was filtered out
returnedUtxos_AlwaysCopy(us, validUtxos) ==
  [sameRef |-> FALSE, seq |-> validUtxos]

\* the same array when nothing was filtered out, the filtered copy otherwise
returnedUtxos(us, validUtxos) ==
  IF Len(us) = Len(validUtxos)
  THEN [sameRef |-> TRUE, seq |-> us]
  ELSE [sameRef |-> FALSE, seq |-> validUtxos]

remainderValueOf(validUtxos, rem, rate) ==
  LET validFee == CeilMul(rate, vsize(Outputs(validUtxos), <<rem>>))
      validUtxosValue == SumValues(validUtxos, 1)
  IN VSub(validUtxosValue, VInt(validFee))

maxFunds(us, rem, rate, dustArg) ==
  LET dustRate == defaultedDustRate(dustArg)
  IN
  IF validateOutputWithValues(us) # NoError
  THEN Thrown(validateOutputWithValues(us))
  ELSE IF validateFeeRate(rate) # NoError
  THEN Thrown(validateFeeRate(rate))
  ELSE IF validateFeeRate(dustRate) # NoError
  THEN Thrown(validateFeeRate(dustRate))
  ELSE IF \E i \in 1..Len(us) : feeContribution(us, rem, rate, us[i]) < 0
  THEN Thrown(NegativeContribution)
  ELSE
    LET validUtxos == validUtxosOf(us, rem, rate)
        remainderValue == remainderValueOf(validUtxos, rem, rate)
        tgts == <<[output |-> rem, value |-> remainderValue]>>
        checked == validatedFeeAndVsize(validUtxos, tgts, rate)
        returned == returnedUtxos(us, validUtxos)
    IN IF ~isDust(rem, remainderValue, dustRate)
       THEN IF checked.err # NoError
            THEN Thrown(checked.err)
            ELSE [kind |-> "result", msg |-> NoError,
                  utxos |-> returned.seq, sameRef |-> returned.sameRef,
                  targets |-> tgts, fee |-> checked.fee,
                  vsize |-> checked.vsize]
       ELSE ReturnedUndefined

(***************************************************************************)
(* The callers' arguments.                                                 *)
(***************************************************************************)
Utxo(id, value, output) == [id |-> id, value |-> value, output |-> output]

\* objects a caller sweeps: 2 and 3 are equal in content, 7 is invalid
UtxoPool ==
  {Utxo(1, VInt(1), "wpkh"), Utxo(2, VInt(148), "pkh"),
   Utxo(3, VInt(148), "pkh"), Utxo(4, VInt(300), "wpkh"),
   Utxo(5, VInt(300), "wpkh"), Utxo(6, Amount(VBase, 0), "pkh"),
   Utxo(7, VInt(0), "wpkh")}

ValidUtxoPool == {u \in UtxoPool : u.id # 7}

\* values offered to validateOutputWithValues: 1, 1e14, 1e14 + 1, 0, -1,
\* 1.5, NaN, Infinity
ValuePool ==
  {Utxo(1, VInt(1), "wpkh"), Utxo(2, Amount(VBase, 0), "pkh"),
   Utxo(3, Amount(VBase, 1), "pkh"), Utxo(4, VInt(0), "wpkh"),
   Utxo(5, VInt(0 - 1), "wpkh"),
   Utxo(6, [k |-> "frac", hi |-> 0, lo |-> 1], "wpkh"),
   Utxo(7, [k |-> "NaN", hi |-> 0, lo |-> 0], "pkh"),
   Utxo(8, [k |-> "Infinity", hi |-> 0, lo |-> 0], "pkh")}

TargetPool ==
  {[output |-> "wpkh", value |-> VInt(191)],
   [output |-> "wpkh", value |-> VInt(192)],
   [output |-> "pkh", value |-> VInt(258)],
   [output |-> "wpkh", value |-> VInt(400)]}

Half == <<0, 0, 0, LimbBase \div 2>>

\* 0x1.e666666666667p+0 = 1.9000000000000001 = 0.1 + 1.8
Rate19 == Fin(1, <<1639, 4915, 6553, 7372>>)

\* NaN, the infinities, 0, 0.5, 1, 1.5, 1.9000000000000001, 3, 10000,
\* 10000.5, 10001
Rates ==
  {NaN, PosInfinity, NegInfinity, Fin(0, NoFrac), Fin(0, Half),
   Fin(1, NoFrac), Fin(1, Half), Rate19, Fin(3, NoFrac), Fin(10000, NoFrac),
   Fin(10000, Half), Fin(10001, NoFrac)}

DustRateArgs == {Undefined, Fin(1, NoFrac), Fin(10000, NoFrac), Fin(0, Half)}

SeqsUpTo(S, n) == UNION {[1..k -> S] : k \in 0..n}

(***************************************************************************)
(* The state machine: one call at a time, then its return to the caller.   *)
(***************************************************************************)
Init ==
  /\ pc = "idle"
  /\ utxos = <<>>
  /\ targets = <<>>
  /\ remainder = "wpkh"
  /\ feeRate = Fin(1, NoFrac)
  /\ dustRelayFeeRate = Undefined
  /\ ret = NoRet

CallMaxFunds ==
  /\ pc = "idle"
  /\ \E us \in SeqsUpTo(UtxoPool, MaxUtxos), rem \in Shapes,
        rate \in Rates, dustArg \in DustRateArgs :
       /\ utxos' = us
       /\ remainder' = rem
       /\ feeRate' = rate
       /\ dustRelayFeeRate' = dustArg
       /\ ret' = maxFunds(us, rem, rate, dustArg)
  /\ pc' = "maxFunds"
  /\ UNCHANGED targets

CallValidateOutputWithValues ==
  /\ pc = "idle"
  /\ \E list \in SeqsUpTo(ValuePool, MaxUtxos) :
       /\ utxos' = list
       /\ ret' = IF validateOutputWithValues(list) = NoError
                 THEN [NoRet EXCEPT !.kind = "ok"]
                 ELSE Thrown(validateOutputWithValues(list))
  /\ pc' = "validateOutputWithValues"
  /\ UNCHANGED <<targets, remainder, feeRate, dustRelayFeeRate>>

CallValidateFeeRate ==
  /\ pc = "idle"
  /\ \E rate \in Rates :
       /\ feeRate' = rate
       /\ ret' = IF validateFeeRate(rate) = NoError
                 THEN [NoRet EXCEPT !.kind = "ok"]
                 ELSE Thrown(validateFeeRate(rate))
  /\ pc' = "validateFeeRate"
  /\ UNCHANGED <<utxos, targets, remainder, dustRelayFeeRate>>

CallValidatedFeeAndVsize ==
  /\ pc = "idle"
  /\ \E us \in SeqsUpTo(ValidUtxoPool, MaxUtxos),
        ts \in SeqsUpTo(TargetPool, MaxTargets), rate \in Rates :
       /\ utxos' = us
       /\ targets' = ts
       /\ feeRate' = rate
       /\ ret' = LET r == validatedFeeAndVsize(us, ts, rate)
                 IN IF r.err = NoError
                    THEN [NoRet EXCEPT !.kind = "feeAndVsize",
                                       !.fee = r.fee, !.vsize = r.vsize]
                    ELSE Thrown(r.err)
  /\ pc' = "validatedFeeAndVsize"
  /\ UNCHANGED <<remainder, dustRelayFeeRate>>

Return ==
  /\ pc # "idle"
  /\ pc' = "idle"
  /\ utxos' = <<>>
  /\ targets' = <<>>
  /\ remainder' = "wpkh"
  /\ feeRate' = Fin(1, NoFrac)
  /\ dustRelayFeeRate' = Undefined
  /\ ret' = NoRet

Next ==
  \/ CallMaxFunds
  \/ CallValidateOutputWithValues
  \/ CallValidateFeeRate
  \/ CallValidatedFeeAndVsize
  \/ Return

Spec == Init /\ [][Next]_vars

(***************************************************************************)
(* Properties.                                                             *)
(***************************************************************************)
InMaxFunds == pc = "maxFunds"

HasResult == InMaxFunds /\ ret.kind = "result"

\* an integer in 1..10^14
SupportedValue(value) ==
  /\ value.k = "int"
  /\ \/ value.hi = 0 /\ value.lo >= 1
     \/ 0 < value.hi /\ value.hi < VBase
     \/ value.hi = VBase /\ value.lo = 0

SupportedList(list) ==
  Len(list) > 0 /\ \A i \in 1..Len(list) : SupportedValue(list[i].value)

\* a finite rate in [1, MAX_FEE_RATE]
SupportedRate(rate) ==
  /\ rate.k = "fin"
  /\ rate.I >= 1
  /\ rate.I < MAX_FEE_RATE.I \/ (rate.I = MAX_FEE_RATE.I /\ rate.F = NoFrac)

DustRateInEffect ==
  IF dustRelayFeeRate = Undefined THEN DUST_RELAY_FEE_RATE
  ELSE dustRelayFeeRate

InputsPassValidation ==
  /\ SupportedList(utxos)
  /\ SupportedRate(feeRate)
  /\ SupportedRate(DustRateInEffect)

RemoveAt(s, i) == [j \in 1..(Len(s) - 1) |-> IF j < i THEN s[j] ELSE s[j + 1]]

\* ceil(feeRate * vsize(all utxos)) - ceil(feeRate * vsize(all but the i-th))
MarginalFee(i) ==
  CeilMul(feeRate, vsize(Outputs(utxos), <<remainder>>))
    - CeilMul(feeRate, vsize(Outputs(RemoveAt(utxos, i)), <<remainder>>))

Returned(i) == \E j \in 1..Len(ret.utxos) : ret.utxos[j].id = utxos[i].id

RECURSIVE IsSubseqFrom(_, _, _, _)
IsSubseqFrom(a, i, b, j) ==
  IF i > Len(a) THEN TRUE
  ELSE IF j > Len(b) THEN FALSE
  ELSE IF a[i] = b[j] THEN IsSubseqFrom(a, i + 1, b, j + 1)
  ELSE IsSubseqFrom(a, i, b, j + 1)

Occurrences(s, id) == Cardinality({i \in 1..Len(s) : s[i].id = id})

\* C1: every result of maxFunds has fee = sum of the returned utxos' values
\* minus the sum of the returned targets' values, exactly.
C1_FeeIsInputsMinusTargets ==
  HasResult =>
    ret.fee = VSub(SumValues(ret.utxos, 1), SumValues(ret.targets, 1))

C1_Witness ==
  HasResult /\ ~ret.sameRef /\ Len(ret.utxos) >= 1 /\ VLess(VZero, ret.fee)

\* C2: every result of maxFunds has fee / vsize >= the requested feeRate (as
\* the runtime divides and compares), vsize being the Size Estimator's value
\* for the returned utxos and the recipient.
C2_RateAtLeastRequested ==
  HasResult =>
    /\ ret.vsize = vsize(Outputs(ret.utxos), <<remainder>>)
    /\ ~JsLess(Quot(ret.fee, ret.vsize), feeRate)

C2_Witness == HasResult /\ feeRate = Fin(1, Half) /\ Len(ret.utxos) = 2

\* C3: the single target of every result of maxFunds, whose value is the sum
\* of the retained values minus the fee recomputed over them, is not dust at
\* the dust relay fee rate in effect (the caller's or the default).
C3_TargetNotDust ==
  HasResult =>
    /\ Len(ret.targets) = 1
    /\ ret.targets[1].output = remainder
    /\ ret.targets[1].value =
         VSub(SumValues(ret.utxos, 1),
              VInt(CeilMul(feeRate, vsize(Outputs(ret.utxos), <<remainder>>))))
    /\ ~isDust(remainder, ret.targets[1].value, DustRateInEffect)

C3_Witness ==
  /\ HasResult
  /\ dustRelayFeeRate = Fin(1, NoFrac)
  /\ isDust(remainder, ret.targets[1].value, DUST_RELAY_FEE_RATE)

\* C4: in every result of maxFunds each returned utxo has a value above its
\* marginal fee contribution, and each caller utxo whose value is at most
\* its marginal fee contribution is absent.
C4_NoUneconomicUtxo ==
  HasResult =>
    /\ \A j \in 1..Len(ret.utxos) : \E i \in 1..Len(utxos) :
         ret.utxos[j] = utxos[i]
    /\ \A i \in 1..Len(utxos) :
         Returned(i) => VLess(VInt(MarginalFee(i)), utxos[i].value)

C4_Witness ==
  /\ HasResult
  /\ \E i \in 1..Len(utxos) :
       utxos[i].value = VInt(MarginalFee(i)) /\ ~Returned(i)
  /\ \E i \in 1..Len(utxos) : Returned(i)

\* C5: with valid inputs maxFunds returns undefined exactly when the
\* recipient value is dust, and a result with one target otherwise.
C5_InfeasibleExactlyWhenDust ==
  (InMaxFunds /\ InputsPassValidation) =>
    LET validUtxos == validUtxosOf(utxos, remainder, feeRate)
        dust == isDust(remainder,
                       remainderValueOf(validUtxos, remainder, feeRate),
                       DustRateInEffect)
    IN /\ ret.kind = "undefined" <=> dust
       /\ ~dust => (ret.kind = "result" /\ Len(ret.targets) = 1)

\* C6: the utxos of every result of maxFunds are caller entries in the
\* caller's order, each caller object kept or dropped as a whole, and the
\* caller's own array is returned exactly when nothing was dropped.
C6_ReturnedUtxosInCallerOrder ==
  HasResult =>
    /\ IsSubseqFrom(ret.utxos, 1, utxos, 1)
    /\ \A i \in 1..Len(utxos) :
         Occurrences(ret.utxos, utxos[i].id) \in
           {0, Occurrences(utxos, utxos[i].id)}
    /\ ret.sameRef <=> Len(ret.utxos) = Len(utxos)
    /\ ret.sameRef => ret.utxos = utxos

C6_Witness == HasResult /\ ~ret.sameRef /\ Len(ret.utxos) = 2

\* C7: validateOutputWithValues completes exactly when the list is not empty
\* and every value is an integer in 1..10^14, and throws otherwise.
C7_ValueValidation ==
  pc = "validateOutputWithValues" =>
    /\ ret.kind = "ok" <=> SupportedList(utxos)
    /\ ret.kind \in {"ok", "error"}
    /\ Len(utxos) = 0 => ret.msg = EmptyGroup
    /\ (Len(utxos) > 0 /\ ~SupportedList(utxos)) => ret.msg = ValueNotSupported

C7_Witness ==
  /\ pc = "validateOutputWithValues"
  /\ ret.kind = "ok"
  /\ \E i \in 1..Len(utxos) : utxos[i].value = Amount(VBase, 0)

\* C8: validateFeeRate completes exactly for the finite rates in
\* [1, MAX_FEE_RATE], and maxFunds throws its error for a feeRate or a
\* dustRelayFeeRate outside that range whatever the utxos would select.
C8_FeeRateValidation ==
  /\ pc = "validateFeeRate" =>
       /\ ret.kind = "ok" <=> SupportedRate(feeRate)
       /\ ~SupportedRate(feeRate) => ret = Thrown(FeeRateNotSupported)
  /\ (InMaxFunds /\ SupportedList(utxos)
        /\ ~(SupportedRate(feeRate) /\ SupportedRate(DustRateInEffect))) =>
       ret = Thrown(FeeRateNotSupported)

C8_Witness ==
  pc = "validateFeeRate" /\ ret.kind = "ok" /\ feeRate = Fin(1, NoFrac)

RealizedRate ==
  Quot(VSub(SumValues(utxos, 1), SumValues(targets, 1)),
       vsize(Outputs(utxos), Outputs(targets)))

RealizedInRange ==
  ~JsLess(RealizedRate, Fin(1, NoFrac)) /\ ~JsLess(MAX_FEE_RATE, RealizedRate)

\* the runtime's x >= y
JsAtLeast(x, y) == y.k # "NaN" /\ ~JsLess(x, y)

C9_Outcomes(returns) ==
  pc = "validatedFeeAndVsize" =>
    /\ ret.kind = "feeAndVsize" <=> returns
    /\ ret.kind = "feeAndVsize" =>
         (ret.fee = RealizedRate.num /\ ret.vsize = RealizedRate.den)
    /\ JsLess(RealizedRate, feeRate) => ret = Thrown(FeeRateTooLow)
    /\ (~JsLess(RealizedRate, feeRate) /\ ~RealizedInRange) =>
         ret = Thrown(FeeRateNotSupported)

\* C9 as stated: validatedFeeAndVsize returns {fee, vsize} if and only if the
\* realized rate is at least the requested feeRate and within
\* [1, MAX_FEE_RATE].
C9_ReturnsIffAtLeastRequested ==
  C9_Outcomes(JsAtLeast(RealizedRate, feeRate) /\ RealizedInRange)

\* C9 amended: validatedFeeAndVsize returns {fee, vsize} if and only if the
\* realized rate is not below the requested feeRate (which a NaN feeRate
\* never makes it) and within [1, MAX_FEE_RATE]; it throws the insufficient
\* fee error when the realized rate is below feeRate and the fee rate error
\* when it is not but lies outside the range.
C9_ReturnsIffNotBelowRequested ==
  C9_Outcomes(~JsLess(RealizedRate, feeRate) /\ RealizedInRange)

C9_Witness ==
  pc = "validatedFeeAndVsize" /\ ret.kind = "feeAndVsize" /\ feeRate = NaN

\* C10: with valid inputs maxFunds never throws; it returns a result or
\* undefined.
C10_NeverThrowsOnValidInputs ==
  (InMaxFunds /\ InputsPassValidation) => ret.kind \in {"result", "undefined"}

====
